---- MODULE Spec2Model ----
(***************************************************************************)
(* A model of gemini_ccsr: the mapping of ICD-10 codes that are missing    *)
(* from the official CCSR table onto CCSR categories by way of related     *)
(* codes (relation_finder.py), with the query normalisation and the        *)
(* default-category step of formatter.py, driven as main.map_icd_to_ccsr   *)
(* drives them.                                                            *)
(*                                                                         *)
(* A code is a sequence of one-character strings.  A row of the CCSR table *)
(* is a record [icd, ccsr_def, cats] where cats is the tuple of the six    *)
(* columns ccsr_1..ccsr_6 and None marks an empty column.                  *)
(***************************************************************************)
EXTENDS Integers, Sequences, FiniteSets, TLC

VARIABLES
    ccsr,                \* the official CCSR table (after check_ccsr)
    query_icd,           \* the query list; check_icd's result once it ran
    direct,              \* get_direct_unmapped: rows of directly mapped codes
    unmapped,            \* get_direct_unmapped: codes without a direct match
    related_close,       \* get_predicted: unmapped, sorted
    related_dist,        \* get_predicted: closefam_failed, sorted
    i,                   \* position of the running loop in its iterator
    closefam_resolved, closefam_unresolved, closefam_failed,
    distfam_resolved, distfam_unresolved, distfam_failed,
    automatic, semiautomatic, failed,
    related,             \* what a classifier called on its own returned
    pc                   \* position of map_icd_to_ccsr

vars == <<ccsr, query_icd, direct, unmapped, related_close,
          related_dist, i, closefam_resolved, closefam_unresolved,
          closefam_failed, distfam_resolved, distfam_unresolved,
          distfam_failed, automatic, semiautomatic, failed, related, pc>>

----------------------------------------------------------------------------
(* Bounds of the model. *)

\* rows of the CCSR table
MaxRef == 4
\* codes in the caller's query list
MaxQuery == 2

----------------------------------------------------------------------------
(* Characters, codes, category labels. *)

None == "None"

NumSlots == 6

Digits == {"0", "1", "2", "3", "4", "5", "6", "7", "8", "9"}

\* code point of a character (Python compares strings by code point)
Ord(ch) ==
    CASE ch = "0" -> 48 [] ch = "1" -> 49 [] ch = "2" -> 50 [] ch = "3" -> 51
      [] ch = "4" -> 52 [] ch = "5" -> 53 [] ch = "6" -> 54 [] ch = "7" -> 55
      [] ch = "8" -> 56 [] ch = "9" -> 57
      [] ch = "A" -> 65 [] ch = "B" -> 66
      [] ch = "W" -> 87
      [] ch = "X" -> 88 [] ch = "Y" -> 89 [] ch = "Z" -> 90
      [] ch = "a" -> 97 [] ch = "b" -> 98

\* str.upper / str.lower on one character
Upper(ch) == CASE ch = "a" -> "A" [] ch = "b" -> "B" [] OTHER -> ch
Lower(ch) == CASE ch = "A" -> "a" [] ch = "B" -> "b" [] OTHER -> ch

Min(a, b) == IF a <= b THEN a ELSE b
Max(a, b) == IF a >= b THEN a ELSE b

\* s[:n] for n >= 0
Prefix(s, n) == SubSeq(s, 1, Min(n, Len(s)))
\* s[:-n] for n > 0
DropLast(s, n) == SubSeq(s, 1, Max(Len(s) - n, 0))
\* s[-n:] for n > 0
Suffix(s, n) == SubSeq(s, Max(Len(s) - n, 0) + 1, Len(s))

\* str.startswith
StartsWith(s, p) == Len(s) >= Len(p) /\ SubSeq(s, 1, Len(p)) = p

\* str.isdigit: non-empty and every character a digit
IsDigit(s) == Len(s) > 0 /\ \A k \in 1..Len(s) : s[k] \in Digits

\* the value of a string of digits
RECURSIVE DigitsValue(_)
DigitsValue(s) ==
    IF Len(s) = 0 THEN 0
    ELSE 10 * DigitsValue(SubSeq(s, 1, Len(s) - 1)) + (Ord(s[Len(s)]) - 48)

\* Python's < on strings
RECURSIVE StrLess(_, _)
StrLess(s, t) ==
    IF Len(t) = 0 THEN FALSE
    ELSE IF Len(s) = 0 THEN TRUE
    ELSE IF s[1] # t[1] THEN Ord(s[1]) < Ord(t[1])
    ELSE StrLess(Tail(s), Tail(t))

\* a category label is a one-character string here
CatLess(a, b) == Ord(a) < Ord(b)

Abs(x) == IF x < 0 THEN -x ELSE x

----------------------------------------------------------------------------
(* relation_finder.py: the six relationship classifiers.  Each returns the *)
(* related rows in table order; the empty sequence stands for None.        *)

\* generation.drop(columns=['ccsr_def']) with the two inserted columns
Related(icd, relation, rows) ==
    [k \in 1..Len(rows) |->
        [queried_icd |-> icd, relationship |-> relation,
         icd |-> rows[k].icd, cats |-> rows[k].cats]]

\* the generations as they would be were every descendant of 1 to 4 more
\* characters returned instead of the nearest generation
ChildGenerationAll(icd, child, gen_num) ==
    SelectSeq(child, LAMBDA r : /\ Len(r.icd) >= Len(icd) + gen_num
                                /\ Len(r.icd) <= Len(icd) + 4)

\* the first non-empty generation among gen_num = from..4
RECURSIVE ChildGeneration(_, _, _)
ChildGeneration(icd, child, gen_num) ==
    IF gen_num > 4 THEN <<>>
    ELSE LET generation ==
                 SelectSeq(child, LAMBDA r : Len(r.icd) = Len(icd) + gen_num)
         IN  IF Len(generation) > 0 THEN generation
             ELSE ChildGeneration(icd, child, gen_num + 1)

get_children(icd, table) ==
    LET child == SelectSeq(table, LAMBDA r : StartsWith(r.icd, icd))
    IN  IF Len(child) = 0 THEN <<>>
        ELSE Related(icd, "Children", ChildGeneration(icd, child, 1))

\* the siblings as they would be were none found
get_sibs_none(icd, table) == <<>>

\* the siblings as they would be were every row that starts with
\* icd[:-1] returned, whatever its length
get_sibs_any_length(icd, table) ==
    LET sibs == SelectSeq(table,
                    LAMBDA r : StartsWith(r.icd, DropLast(icd, 1)))
    IN  Related(icd, "Siblings", sibs)

get_sibs(icd, table) ==
    LET sibs == SelectSeq(table,
                    LAMBDA r : DropLast(r.icd, 1) = DropLast(icd, 1))
    IN  Related(icd, "Siblings", sibs)

\* the parents as they would be were every truncation of 3 to str_len
\* characters returned instead of the longest one
ParentGenerationAll(icd, table, str_len) ==
    SelectSeq(table, LAMBDA r : \E n \in 3..str_len : r.icd = Prefix(icd, n))

\* the rows matching the longest truncation icd[:str_len], str_len >= 3
RECURSIVE ParentGeneration(_, _, _)
ParentGeneration(icd, table, str_len) ==
    IF str_len <= 2 THEN <<>>
    ELSE LET generation ==
                 SelectSeq(table, LAMBDA r : r.icd = Prefix(icd, str_len))
         IN  IF Len(generation) > 0 THEN generation
             ELSE ParentGeneration(icd, table, str_len - 1)

get_parents(icd, table) ==
    Related(icd, "Parents", ParentGeneration(icd, table, Len(icd) - 1))

\* rows of the queried code's length that share all but its last two
\* characters and end in two digits (lines 776-778)
HalfsibCandidates(icd, table) ==
    IF Len(icd) >= 5
    THEN SelectSeq(table,
             LAMBDA r : /\ DropLast(r.icd, 2) = DropLast(icd, 2)
                        /\ Len(r.icd) = Len(icd)
                        /\ IsDigit(Suffix(r.icd, 2)))
    ELSE <<>>

\* int(icd[-2:]) on line 781 raises ValueError unless icd[-2:] is digits;
\* the line runs only when a candidate row is left
halfsibs_raises(icd, table) ==
    /\ Len(HalfsibCandidates(icd, table)) > 0
    /\ ~IsDigit(Suffix(icd, 2))

\* the rows get_halfsibs returns; where line 781 raises nothing is
\* returned, and the group counts as empty
get_halfsibs(icd, table) ==
    LET cand == HalfsibCandidates(icd, table)
        halfsibs ==
            IF Len(cand) > 0 /\ IsDigit(Suffix(icd, 2))
            THEN SelectSeq(cand,
                     LAMBDA r : Abs(DigitsValue(Suffix(r.icd, 2))
                                    - DigitsValue(Suffix(icd, 2))) < 10)
            ELSE <<>>
    IN  Related(icd, "Half-Siblings", halfsibs)

\* the cousins as they would be were only the rows of the length of icd
\* returned
get_cousins_same_length(icd, table) ==
    LET cousins == SelectSeq(table,
                       LAMBDA r : /\ Prefix(r.icd, 3) = Prefix(icd, 3)
                                  /\ Len(r.icd) = Len(icd))
    IN  Related(icd, "Cousins", cousins)

get_cousins(icd, table) ==
    LET cousins == SelectSeq(table,
                       LAMBDA r : Prefix(r.icd, 3) = Prefix(icd, 3))
    IN  Related(icd, "Cousins", cousins)

\* the extended family as it would be were the first two characters not
\* compared: every row of the table
get_extfam_whole_table(icd, table) == Related(icd, "Extended Family", table)

get_extfam(icd, table) ==
    LET extfam == SelectSeq(table,
                      LAMBDA r : Prefix(r.icd, 2) = Prefix(icd, 2))
    IN  Related(icd, "Extended Family", extfam)

get_closely_related(icd, table) ==
    get_children(icd, table) \o get_sibs(icd, table) \o get_parents(icd, table)

get_distantly_related(icd, table) ==
    get_halfsibs(icd, table) \o get_cousins(icd, table)
        \o get_extfam(icd, table)

\* the table as it would be left were the frames of the classifiers views
\* of it: drop(columns=['ccsr_def']) would take the default of every row
\* that is a relative
table_after_search_of_views(table, icd_related) ==
    [k \in 1..Len(table) |->
        IF \E j \in 1..Len(icd_related) : icd_related[j].icd = table[k].icd
        THEN [table[k] EXCEPT !.ccsr_def = None]
        ELSE table[k]]

\* the table as the classifiers leave it: ccsr[mask] and drop() return new
\* frames, so the two insert() calls act on a copy and the table is as it
\* was
table_after_search(table, icd_related) == table

\* icd_related[icd_related['relationship'] == relation]
OfRelation(icd_related, relation) ==
    SelectSeq(icd_related, LAMBDA r : r.relationship = relation)

----------------------------------------------------------------------------
(* relation_finder.get_predicted: counting categories over a group.        *)

\* the non-empty columns of one row, ccsr_1 first
RowLabels(cats) == SelectSeq(cats, LAMBDA c : c # None)

\* rows[ccsr_colnames].stack(): every non-empty cell, row by row
RECURSIVE Stack(_)
Stack(rows) ==
    IF Len(rows) = 0 THEN <<>>
    ELSE RowLabels(Head(rows).cats) \o Stack(Tail(rows))

\* the number of cells of a stacked column holding the label
Occurrences(cells, label) ==
    Cardinality({k \in 1..Len(cells) : cells[k] = label})

\* the distinct values of a column, in order of first appearance
RECURSIVE Unique(_)
Unique(cells) ==
    IF Len(cells) = 0 THEN <<>>
    ELSE LET init == Unique(SubSeq(cells, 1, Len(cells) - 1))
             last == cells[Len(cells)]
         IN  IF \E k \in 1..Len(init) : init[k] = last THEN init
             ELSE Append(init, last)

\* Series.value_counts(): [label, n] by n descending, equal counts in order
\* of first appearance
value_counts(cells) ==
    LET labels == Unique(cells)
        counted == [k \in 1..Len(labels) |->
                       [label |-> labels[k], n |-> Occurrences(cells, labels[k]),
                        pos |-> k]]
        sorted == SortSeq(counted,
                     LAMBDA a, b : a.n > b.n \/ (a.n = b.n /\ a.pos < b.pos))
    IN  [k \in 1..Len(sorted) |-> [label |-> sorted[k].label, n |-> sorted[k].n]]

\* code_counts[code_counts == len(icd_relation)].index.to_list()
agreed_codes(icd_relation) ==
    LET code_counts == value_counts(Stack(icd_relation))
        hit == SelectSeq(code_counts, LAMBDA e : e.n = Len(icd_relation))
    IN  [k \in 1..Len(hit) |-> hit[k].label]

\* agreed_codes.extend((6 - len(agreed_codes)) * [None])
Padded(labels) ==
    labels \o [k \in 1..Max(NumSlots - Len(labels), 0) |-> None]

\* (100 * n / g).round(decimals=2), in hundredths of a percent.  A tie of
\* the rounding needs g to be a multiple of 32.
Percent(n, g) == (2 * 10000 * n + g) \div (2 * g)

\* the row of an automatically mapped code (lines 258-263, 346-351)
ResolvedRow(icd, relation, icd_related, agreed) ==
    LET members == OfRelation(icd_related, relation)
    IN  [queried_icd |-> icd, deciding_relationship |-> relation,
         cats |-> Padded(agreed),
         related_codes |-> [k \in 1..Len(members) |-> members[k].icd]]

\* code_perc with the queried code and the tier (lines 273-282, 363-371)
code_perc(icd, icd_relation_temp, tier) ==
    LET counts == value_counts(Stack(icd_relation_temp))
    IN  [k \in 1..Len(counts) |->
            [queried_icd |-> icd, ccsr_1 |-> counts[k].label,
             prct_fam_agree |-> Percent(counts[k].n, Len(icd_relation_temp)),
             relationship |-> tier]]

\* the loop over 'Children', 'Siblings', 'Parents' (lines 239-268)
RECURSIVE CloseLoop(_, _, _, _)
CloseLoop(icd, icd_related, relations, icd_relation_temp) ==
    IF Len(relations) = 0
    THEN [automatic |-> FALSE, temp |-> icd_relation_temp, res |-> <<>>]
    ELSE LET relation == Head(relations)
             icd_relation == OfRelation(icd_related, relation)
         IN  IF Len(icd_relation) = 0
             THEN CloseLoop(icd, icd_related, Tail(relations),
                            icd_relation_temp)
             ELSE LET temp == icd_relation_temp \o icd_relation
                      agreed == agreed_codes(icd_relation)
                  IN  IF Len(agreed) > 0
                      THEN [automatic |-> TRUE, temp |-> temp,
                            res |-> <<ResolvedRow(icd, relation, icd_related,
                                                  agreed)>>]
                      ELSE CloseLoop(icd, icd_related, Tail(relations), temp)

\* the distant loop as it would be were the percentages taken over all
\* distant relatives instead of icd_relation_temp
RECURSIVE DistantLoopAllRelatives(_, _, _)
DistantLoopAllRelatives(icd, icd_related, relations) ==
    IF Len(relations) = 0
    THEN [automatic |-> FALSE, temp |-> <<>>, res |-> <<>>]
    ELSE LET relation == Head(relations)
             icd_relation == OfRelation(icd_related, relation)
         IN  IF Len(icd_relation) = 0
             THEN DistantLoopAllRelatives(icd, icd_related, Tail(relations))
             ELSE LET agreed == agreed_codes(icd_relation)
                  IN  IF Len(agreed) > 0
                      THEN [automatic |-> TRUE, temp |-> icd_relation,
                            res |-> <<ResolvedRow(icd, relation, icd_related,
                                                  agreed)>>]
                      ELSE [automatic |-> FALSE, temp |-> icd_related,
                            res |-> <<>>]

\* the loop over 'Half-Siblings', 'Cousins', 'Extended Family'
\* (lines 324-358): it ends at the first relation that has members
RECURSIVE DistantLoop(_, _, _)
DistantLoop(icd, icd_related, relations) ==
    IF Len(relations) = 0
    THEN [automatic |-> FALSE, temp |-> <<>>, res |-> <<>>]
    ELSE LET relation == Head(relations)
             icd_relation == OfRelation(icd_related, relation)
         IN  IF Len(icd_relation) = 0
             THEN DistantLoop(icd, icd_related, Tail(relations))
             ELSE LET agreed == agreed_codes(icd_relation)
                  IN  IF Len(agreed) > 0
                      THEN [automatic |-> TRUE, temp |-> icd_relation,
                            res |-> <<ResolvedRow(icd, relation, icd_related,
                                                  agreed)>>]
                      ELSE [automatic |-> FALSE, temp |-> icd_relation,
                            res |-> <<>>]

CloseRelations == <<"Children", "Siblings", "Parents">>
DistantRelations == <<"Half-Siblings", "Cousins", "Extended Family">>

\* one pass of the loop body of a tier: what it appends to the tier's
\* resolved, unresolved and failed frames
TierBody(loop, icd, icd_related, tier) ==
    IF Len(icd_related) = 0
    THEN [resolved |-> <<>>, unresolved |-> <<>>, failed |-> <<icd>>]
    ELSE IF loop.automatic
    THEN [resolved |-> loop.res, unresolved |-> <<>>, failed |-> <<>>]
    ELSE IF Len(loop.temp) = 0
    THEN [resolved |-> <<>>, unresolved |-> <<>>, failed |-> <<>>]
    ELSE LET perc == code_perc(icd, loop.temp, tier)
         IN  IF Len(perc) = 0
             THEN [resolved |-> <<>>, unresolved |-> <<>>, failed |-> <<icd>>]
             ELSE [resolved |-> <<>>, unresolved |-> perc, failed |-> <<>>]

\* lines 233-286 for one code
CloseBody(icd, table) ==
    LET icd_related == get_closely_related(icd, table)
    IN  TierBody(CloseLoop(icd, icd_related, CloseRelations, <<>>),
                 icd, icd_related, "Close")

\* lines 318-375 for one code (get_halfsibs not raising)
DistantBody(icd, table) ==
    LET icd_related == get_distantly_related(icd, table)
    IN  TierBody(DistantLoop(icd, icd_related, DistantRelations),
                 icd, icd_related, "Distant")

----------------------------------------------------------------------------
(* formatter.py *)

NaN == <<"NaN">>

\* str.capitalize: first character upper case, the others lower case
Capitalize(code) ==
    [k \in 1..Len(code) |-> IF k = 1 THEN Upper(code[k]) ELSE Lower(code[k])]

\* the elements of a set as a sequence, in some order
RECURSIVE SetToSeq(_)
SetToSeq(S) ==
    IF S = {} THEN <<>>
    ELSE LET x == CHOOSE y \in S : TRUE
         IN  <<x>> \o SetToSeq(S \ {x})

\* check_icd (lines 355-365): set, NaNs removed, capitalize, sorted.  The
\* order list(set(..)) yields is immaterial: sorted() follows, and equal
\* strings cannot be told apart.
check_icd(query) ==
    LET distinct == SetToSeq({query[k] : k \in 1..Len(query)})
        present == SelectSeq(distinct, LAMBDA e : e # NaN)
        capitalized == [k \in 1..Len(present) |-> Capitalize(present[k])]
    IN  SortSeq(capitalized, StrLess)

\* tuple(sorted(row[row.notna()].to_list()))
SortedLabels(cats) == SortSeq(RowLabels(cats), CatLess)

\* get_default_map: the sorted labels of every row of the table mapped to
\* the row's ccsr_def; of two rows with the same labels the later one wins

\* official_ccsr[['ccsr_def'] + ccsr_cols].drop_duplicates(): the first row
\* of every (ccsr_def, ccsr_1..6) combination
RECURSIVE drop_duplicates(_)
drop_duplicates(table) ==
    IF Len(table) = 0 THEN <<>>
    ELSE LET init == drop_duplicates(SubSeq(table, 1, Len(table) - 1))
             last == [ccsr_def |-> table[Len(table)].ccsr_def,
                      cats |-> table[Len(table)].cats]
         IN  IF \E k \in 1..Len(init) : init[k] = last THEN init
             ELSE Append(init, last)

default_map_get(table, tup) ==
    LET hits == SelectSeq(drop_duplicates(table),
                          LAMBDA r : SortedLabels(r.cats) = tup)
    IN  IF Len(hits) = 0 THEN None ELSE hits[Len(hits)].ccsr_def

\* related_default as it would be were the most frequent default of the
\* related codes taken, whether or not it is one of the shared categories
related_default_unrestricted(table, row) ==
    LET rel == SelectSeq(table,
                   LAMBDA r : \E k \in 1..Len(row.related_codes) :
                                  row.related_codes[k] = r.icd)
        defs == [k \in 1..Len(rel) |-> rel[k].ccsr_def]
    IN  IF Len(defs) = 0 THEN None ELSE value_counts(defs)[1].label

\* related_default as it would be were the default of the first related
\* code taken, whether or not it is one of the shared categories
related_default_first(table, row) ==
    LET rel == SelectSeq(table,
                   LAMBDA r : \E k \in 1..Len(row.related_codes) :
                                  row.related_codes[k] = r.icd)
    IN  IF Len(rel) = 0 THEN None ELSE rel[1].ccsr_def

\* shared_def.value_counts().sort_values(ascending=False).index[0]
\* (lines 185-195); None when shared_def is empty
related_default(table, row) ==
    LET rel == SelectSeq(table,
                   LAMBDA r : \E k \in 1..Len(row.related_codes) :
                                  row.related_codes[k] = r.icd)
        shared_cat == SortedLabels(row.cats)
        shared == SelectSeq(rel,
                      LAMBDA r : \E k \in 1..Len(shared_cat) :
                                     shared_cat[k] = r.ccsr_def)
        shared_def == [k \in 1..Len(shared) |-> shared[k].ccsr_def]
    IN  IF Len(shared_def) = 0 THEN None
        ELSE value_counts(shared_def)[1].label

\* pd.isnull(output_ccsr.loc[queried_icd == icd, 'ccsr_2']).bool() on line
\* 179 raises ValueError unless exactly one row has that queried_icd
add_default_raises(output, table) ==
    \E k \in 1..Len(output) :
        /\ default_map_get(table, SortedLabels(output[k].cats)) = None
        /\ Cardinality({j \in 1..Len(output) :
                           output[j].queried_icd = output[k].queried_icd}) # 1

\* row_default as it would be without the rule of the single category:
\* a row the map has nothing for gets its default from the related codes
row_default_no_single(table, row) ==
    LET mapped == default_map_get(table, SortedLabels(row.cats))
    IN  IF mapped # None THEN mapped
        ELSE related_default(table, row)

\* row_default as it would be with the rule of the single category tried
\* before the lookup in the default map
row_default_single_first(table, row) ==
    LET mapped == default_map_get(table, SortedLabels(row.cats))
    IN  IF row.cats[2] = None THEN row.cats[1]
        ELSE IF mapped # None THEN mapped
        ELSE related_default(table, row)

\* the ccsr_def add_default gives one row of automatic
row_default(table, row) ==
    LET mapped == default_map_get(table, SortedLabels(row.cats))
    IN  IF mapped # None THEN mapped
        ELSE IF row.cats[2] = None THEN row.cats[1]
        ELSE related_default(table, row)

add_default(output, table) ==
    [k \in 1..Len(output) |->
        [queried_icd |-> output[k].queried_icd,
         deciding_relationship |-> output[k].deciding_relationship,
         cats |-> output[k].cats,
         related_codes |-> output[k].related_codes,
         ccsr_def |-> row_default(table, output[k])]]

----------------------------------------------------------------------------
(* relation_finder.get_direct_unmapped *)

\* pd.merge(ccsr, icd, how='left', on='icd'), as direct_attempt would be
\* with the join taken from the side of the table: every row of ccsr
direct_attempt_left(icd, table) == table

\* pd.merge(ccsr, icd, how='right', on='icd'): for every queried code, in
\* the order of icd, its rows of ccsr, or one row of empty columns
RECURSIVE direct_attempt(_, _)
direct_attempt(icd, table) ==
    IF Len(icd) = 0 THEN <<>>
    ELSE LET hits == SelectSeq(table, LAMBDA r : r.icd = Head(icd))
             rows == IF Len(hits) > 0 THEN hits
                     ELSE <<[icd |-> Head(icd), ccsr_def |-> None,
                             cats |-> [k \in 1..NumSlots |-> None]]>>
         IN  rows \o direct_attempt(Tail(icd), table)

\* the rows with ccsr_1, sorted, icd renamed queried_icd (lines 79-82)
get_direct(icd, table) ==
    LET matched == SortSeq(SelectSeq(direct_attempt(icd, table),
                                     LAMBDA r : r.cats[1] # None),
                           LAMBDA a, b : StrLess(a.icd, b.icd))
    IN  [k \in 1..Len(matched) |->
            [queried_icd |-> matched[k].icd,
             ccsr_def |-> matched[k].ccsr_def, cats |-> matched[k].cats]]

\* get_unmapped as it would be were every queried code handed on, the
\* matched ones too
get_unmapped_all(icd, table) ==
    LET rows == direct_attempt(icd, table)
    IN  [k \in 1..Len(rows) |-> rows[k].icd]

get_unmapped(icd, table) ==
    LET rows == SelectSeq(direct_attempt(icd, table),
                          LAMBDA r : r.cats[1] = None)
    IN  [k \in 1..Len(rows) |-> rows[k].icd]

----------------------------------------------------------------------------
(* The codes and rows the tables and query lists are drawn from. *)

\* the queried code of the examples
A0105  == <<"A", "0", "1", "0", "5">>
\* its children, siblings and parent
A01051 == <<"A", "0", "1", "0", "5", "1">>
A01052 == <<"A", "0", "1", "0", "5", "2">>
A01053 == <<"A", "0", "1", "0", "5", "3">>
A0100  == <<"A", "0", "1", "0", "0">>
A0101  == <<"A", "0", "1", "0", "1">>
A010   == <<"A", "0", "1", "0">>
\* two half-siblings, a cousin that is no half-sibling (15 - 5 = 10), and
\* a code of the extended family
A0110  == <<"A", "0", "1", "1", "0">>
A0111  == <<"A", "0", "1", "1", "1">>
A0115  == <<"A", "0", "1", "1", "5">>
A00    == <<"A", "0", "0">>
\* a code that does not end in two digits, and a code without relatives
A01AA  == <<"A", "0", "1", "A", "A">>
B11    == <<"B", "1", "1">>
\* further codes for the classifiers: ancestors of A0105, of which A0 is
\* shorter than an ICD-10 code, a half-sibling at distance 9, and
\* descendants of A01 four and five characters longer than it
A0       == <<"A", "0">>
A01      == <<"A", "0", "1">>
A0114    == <<"A", "0", "1", "1", "4">>
A010511  == <<"A", "0", "1", "0", "5", "1", "1">>
A0105112 == <<"A", "0", "1", "0", "5", "1", "1", "2">>

\* the codes of the tables: the close family of A0105 with one distant
\* relative, or its distant family with one sibling and A0105 itself
CloseCodes == {A01051, A01052, A0100, A0101, A010, A0110}
DistantCodes == {A0110, A0111, A0115, A00, A0100, A0105}

QueryCodes == {A0105, A01AA, B11}

Categories == {"W", "X", "Y", "Z"}

\* ccsr_1..ccsr_6 holding the labels, then empty columns
Cats(labels) == Padded(labels)

\* the category columns and default of a row: one label, two labels, and
\* one label filling two columns
RowShapes ==
    { [ccsr_def |-> "X", cats |-> Cats(<<"X">>)],
      [ccsr_def |-> "Y", cats |-> Cats(<<"Y">>)],
      [ccsr_def |-> "Y", cats |-> Cats(<<"X", "Y">>)],
      [ccsr_def |-> "X", cats |-> Cats(<<"X", "X">>)] }

\* a table with one row for every code of cs, shaped by f, in ascending
\* order of the codes
TableOf(cs, f) ==
    LET codes == SortSeq(SetToSeq(cs), StrLess)
    IN  [k \in 1..Len(codes) |->
            [icd |-> codes[k], ccsr_def |-> f[codes[k]].ccsr_def,
             cats |-> f[codes[k]].cats]]

\* the tables of at most MaxRef rows over a set of codes
TablesOver(codes) ==
    UNION { { TableOf(cs, f) : f \in [cs -> RowShapes] } :
            cs \in {c \in SUBSET codes : Cardinality(c) <= MaxRef} }

\* rows that tell the three rules of add_default apart: a default that is
\* none of the row's categories, two defaults for the categories X and Y,
\* and rows that share X and Y and have a category and default of their own
DefaultShapes ==
    { [ccsr_def |-> "X", cats |-> Cats(<<"X">>)],
      [ccsr_def |-> "Z", cats |-> Cats(<<"X">>)],
      [ccsr_def |-> "Y", cats |-> Cats(<<"X", "Y">>)],
      [ccsr_def |-> "X", cats |-> Cats(<<"X", "Y">>)],
      [ccsr_def |-> "Z", cats |-> Cats(<<"X", "Y", "Z">>)],
      [ccsr_def |-> "W", cats |-> Cats(<<"W", "X", "Y">>)] }

\* the children, a sibling and the parent of A0105
DefaultCodes == {A01051, A01052, A0100, A010}

\* the rows that hold the same categories have the same default
OneDefaultPerCategories(table) ==
    \A j, k \in 1..Len(table) :
        SortedLabels(table[j].cats) = SortedLabels(table[k].cats)
            => table[j].ccsr_def = table[k].ccsr_def

DefaultTables ==
    { t \in UNION { { TableOf(cs, f) : f \in [cs -> DefaultShapes] } :
                    cs \in {c \in SUBSET DefaultCodes :
                                Cardinality(c) <= MaxRef} } :
        OneDefaultPerCategories(t) }

\* rows of one category out of three, over the children and siblings of
\* A0105: two groups that disagree give candidates of unequal percentages
OrderShapes ==
    { [ccsr_def |-> "X", cats |-> Cats(<<"X">>)],
      [ccsr_def |-> "Y", cats |-> Cats(<<"Y">>)],
      [ccsr_def |-> "Z", cats |-> Cats(<<"Z">>)] }

OrderCodes == {A01051, A01052, A0100, A0101}

OrderTables ==
    UNION { { TableOf(cs, f) : f \in [cs -> OrderShapes] } :
            cs \in {c \in SUBSET OrderCodes : Cardinality(c) <= MaxRef} }

\* rows whose common categories are the categories of no row: W,X and X,Y
\* share X alone, and the rows of three and four categories share X and Y,
\* with defaults among X and Y or outside them
SharedShapes ==
    { [ccsr_def |-> "W", cats |-> Cats(<<"W", "X">>)],
      [ccsr_def |-> "Y", cats |-> Cats(<<"X", "Y">>)],
      [ccsr_def |-> "X", cats |-> Cats(<<"W", "X", "Y">>)],
      [ccsr_def |-> "W", cats |-> Cats(<<"W", "X", "Y">>)],
      [ccsr_def |-> "Y", cats |-> Cats(<<"X", "Y", "Z">>)],
      [ccsr_def |-> "Y", cats |-> Cats(<<"W", "X", "Y", "Z">>)] }

\* three children of A0105
SharedCodes == {A01051, A01052, A01053}

SharedTables ==
    { t \in UNION { { TableOf(cs, f) : f \in [cs -> SharedShapes] } :
                    cs \in {c \in SUBSET SharedCodes :
                                Cardinality(c) <= MaxRef} } :
        OneDefaultPerCategories(t) }

Tables ==
    TablesOver(CloseCodes) \cup TablesOver(DistantCodes) \cup DefaultTables
        \cup OrderTables \cup SharedTables

\* the sequences over S of length 1..n
SeqsUpTo(S, n) == UNION { [1..m -> S] : m \in 1..n }

----------------------------------------------------------------------------
(* main.map_icd_to_ccsr as a state machine. *)

Empty == <<>>

Init ==
    /\ ccsr \in Tables
    /\ query_icd \in SeqsUpTo(QueryCodes, MaxQuery)
    /\ direct = Empty
    /\ unmapped = Empty
    /\ related_close = Empty
    /\ related_dist = Empty
    /\ i = 0
    /\ closefam_resolved = Empty
    /\ closefam_unresolved = Empty
    /\ closefam_failed = Empty
    /\ distfam_resolved = Empty
    /\ distfam_unresolved = Empty
    /\ distfam_failed = Empty
    /\ automatic = Empty
    /\ semiautomatic = Empty
    /\ failed = Empty
    /\ related = Empty
    /\ pc = "check_icd"

\* main.py line 155: query_icd = formatter.check_icd(query_icd)
CheckIcd ==
    /\ pc = "check_icd"
    /\ query_icd' = check_icd(query_icd)
    /\ pc' = "get_direct_unmapped"
    /\ UNCHANGED <<related, ccsr, direct, unmapped, related_close,
                   related_dist, i, closefam_resolved, closefam_unresolved,
                   closefam_failed, distfam_resolved, distfam_unresolved,
                   distfam_failed, automatic, semiautomatic, failed>>

\* main.py lines 157-160 and 170-173, relation_finder.py lines 213-220
GetDirectUnmapped ==
    /\ pc = "get_direct_unmapped"
    /\ direct' = get_direct(query_icd, ccsr)
    /\ unmapped' = get_unmapped(query_icd, ccsr)
    /\ IF Len(unmapped') = 0
       THEN /\ pc' = "done"
            /\ UNCHANGED <<related_close, i>>
       ELSE /\ related_close' = SortSeq(unmapped', StrLess)
            /\ i' = 1
            /\ pc' = "close"
    /\ UNCHANGED <<related, ccsr, query_icd, related_dist,
                   closefam_resolved, closefam_unresolved, closefam_failed,
                   distfam_resolved, distfam_unresolved, distfam_failed,
                   automatic, semiautomatic, failed>>

\* relation_finder.py lines 231-286: one pass of the loop over the
\* unmapped codes
CloseStep ==
    /\ pc = "close"
    /\ i <= Len(related_close)
    /\ LET body == CloseBody(related_close[i], ccsr)
       IN  /\ closefam_resolved' = closefam_resolved \o body.resolved
           /\ closefam_unresolved' = closefam_unresolved \o body.unresolved
           /\ closefam_failed' = closefam_failed \o body.failed
    /\ ccsr' = table_after_search(
                    ccsr, get_closely_related(related_close[i], ccsr))
    /\ i' = i + 1
    /\ UNCHANGED <<related, query_icd, direct, unmapped, related_close,
                   related_dist, distfam_resolved, distfam_unresolved,
                   distfam_failed, automatic, semiautomatic, failed, pc>>

\* relation_finder.py lines 299-311: the end of the first loop
CloseDone ==
    /\ pc = "close"
    /\ i > Len(related_close)
    /\ IF Len(closefam_failed) > 0
       THEN /\ related_dist' = SortSeq(closefam_failed, StrLess)
            /\ i' = 1
            /\ pc' = "distant"
       ELSE /\ pc' = "merge"
            /\ UNCHANGED <<related_dist, i>>
    /\ UNCHANGED <<related, ccsr, query_icd, direct, unmapped, related_close,
                   closefam_resolved, closefam_unresolved, closefam_failed,
                   distfam_resolved, distfam_unresolved, distfam_failed,
                   automatic, semiautomatic, failed>>

\* relation_finder.py lines 316-375: one pass of the loop over the codes
\* without close relatives
DistantStep ==
    /\ pc = "distant"
    /\ i <= Len(related_dist)
    /\ ~halfsibs_raises(related_dist[i], ccsr)
    /\ LET body == DistantBody(related_dist[i], ccsr)
       IN  /\ distfam_resolved' = distfam_resolved \o body.resolved
           /\ distfam_unresolved' = distfam_unresolved \o body.unresolved
           /\ distfam_failed' = distfam_failed \o body.failed
    /\ ccsr' = table_after_search(
                    ccsr, get_distantly_related(related_dist[i], ccsr))
    /\ i' = i + 1
    /\ UNCHANGED <<related, query_icd, direct, unmapped, related_close,
                   related_dist, closefam_resolved, closefam_unresolved,
                   closefam_failed, automatic, semiautomatic, failed, pc>>

\* relation_finder.py line 781: the ValueError of int(icd[-2:]) leaves
\* get_halfsibs, get_predicted and map_icd_to_ccsr
DistantRaise ==
    /\ pc = "distant"
    /\ i <= Len(related_dist)
    /\ halfsibs_raises(related_dist[i], ccsr)
    /\ pc' = "ValueError"
    /\ UNCHANGED <<related, ccsr, query_icd, direct, unmapped, related_close,
                   related_dist, i, closefam_resolved, closefam_unresolved,
                   closefam_failed, distfam_resolved, distfam_unresolved,
                   distfam_failed, automatic, semiautomatic, failed>>

DistantDone ==
    /\ pc = "distant"
    /\ i > Len(related_dist)
    /\ pc' = "merge"
    /\ UNCHANGED <<related, ccsr, query_icd, direct, unmapped, related_close,
                   related_dist, i, closefam_resolved, closefam_unresolved,
                   closefam_failed, distfam_resolved, distfam_unresolved,
                   distfam_failed, automatic, semiautomatic, failed>>

\* semiautomatic.sort_values(["queried_icd", "prct_fam_agree", "ccsr_1"],
\*                           ascending=[True, False, True])
SemiLess(a, b) ==
    \/ StrLess(a.queried_icd, b.queried_icd)
    \/ /\ a.queried_icd = b.queried_icd
       /\ \/ a.prct_fam_agree > b.prct_fam_agree
          \/ /\ a.prct_fam_agree = b.prct_fam_agree
             /\ CatLess(a.ccsr_1, b.ccsr_1)

\* relation_finder.py lines 382-404
merge_automatic(close, distant) ==
    SortSeq(close \o distant,
            LAMBDA a, b : StrLess(a.queried_icd, b.queried_icd))

\* semiautomatic as it would be were it sorted by queried_icd alone
merge_semiautomatic_by_code(close, distant) ==
    SortSeq(close \o distant,
            LAMBDA a, b : StrLess(a.queried_icd, b.queried_icd))

merge_semiautomatic(close, distant) == SortSeq(close \o distant, SemiLess)

merge_failed(distant) == SortSeq(distant, StrLess)

\* relation_finder.py lines 382-404 and main.py lines 165-173
Merge ==
    /\ pc = "merge"
    /\ LET merged == merge_automatic(closefam_resolved, distfam_resolved)
       IN  IF Len(merged) > 0 /\ add_default_raises(merged, ccsr)
           THEN /\ pc' = "ValueError"
                /\ UNCHANGED <<automatic, semiautomatic, failed>>
           ELSE /\ automatic' = add_default(merged, ccsr)
                /\ semiautomatic' =
                       merge_semiautomatic(closefam_unresolved,
                                           distfam_unresolved)
                /\ failed' = merge_failed(distfam_failed)
                /\ pc' = "done"
    /\ UNCHANGED <<related, ccsr, query_icd, direct, unmapped, related_close,
                   related_dist, i, closefam_resolved, closefam_unresolved,
                   closefam_failed, distfam_resolved, distfam_unresolved,
                   distfam_failed>>

Next ==
    \/ CheckIcd
    \/ GetDirectUnmapped
    \/ CloseStep
    \/ CloseDone
    \/ DistantStep
    \/ DistantRaise
    \/ DistantDone
    \/ Merge

Spec == Init /\ [][Next]_vars

----------------------------------------------------------------------------
(* The six relationship classifiers called on their own: each is a public  *)
(* function of relation_finder that takes one code and the reference       *)
(* table, which may hold the code itself.                                  *)

\* the codes of the classifier tables: A0105 with its ancestors down to a
\* two-character code, its descendants up to three generations, entries of
\* its length at distances 4, 5, 9 and 10, one ending in letters, and an
\* unrelated code
RelCodes ==
    {A0, A00, A01, A010, A0100, A0101, A0105, A01051, A01052, A0110, A0114,
     A0115, A01AA, A010511, A0105112, B11}

\* the codes the classifiers are called on, as check_icd leaves them
RelQueries == {A01, A010, A0105, A01051, Capitalize(A01AA), B11}

\* tables of at most MaxRef rows, every row in the category X
ClassifierTables ==
    { TableOf(cs, [c \in cs |-> [ccsr_def |-> "X", cats |-> Cats(<<"X">>)]]) :
        cs \in {c \in SUBSET RelCodes : Cardinality(c) <= MaxRef} }

InitClassifiers ==
    /\ ccsr \in ClassifierTables
    /\ unmapped \in {<<c>> : c \in RelQueries}
    /\ query_icd = unmapped
    /\ direct = Empty
    /\ related_close = Empty
    /\ related_dist = Empty
    /\ i = 0
    /\ closefam_resolved = Empty
    /\ closefam_unresolved = Empty
    /\ closefam_failed = Empty
    /\ distfam_resolved = Empty
    /\ distfam_unresolved = Empty
    /\ distfam_failed = Empty
    /\ automatic = Empty
    /\ semiautomatic = Empty
    /\ failed = Empty
    /\ related = Empty
    /\ pc = "classify"

\* a classifier returns: only its result and the position change
Returns(result, name) ==
    /\ related' = result
    /\ pc' = name
    /\ UNCHANGED <<ccsr, query_icd, direct, unmapped, related_close,
                   related_dist, i, closefam_resolved, closefam_unresolved,
                   closefam_failed, distfam_resolved, distfam_unresolved,
                   distfam_failed, automatic, semiautomatic, failed>>

GetChildren ==
    /\ pc = "classify"
    /\ Returns(get_children(unmapped[1], ccsr), "get_children")

GetSibs ==
    /\ pc = "classify"
    /\ Returns(get_sibs(unmapped[1], ccsr), "get_sibs")

GetParents ==
    /\ pc = "classify"
    /\ Returns(get_parents(unmapped[1], ccsr), "get_parents")

GetHalfsibs ==
    /\ pc = "classify"
    /\ ~halfsibs_raises(unmapped[1], ccsr)
    /\ Returns(get_halfsibs(unmapped[1], ccsr), "get_halfsibs")

\* int(icd[-2:]) raises: get_halfsibs returns nothing
GetHalfsibsRaise ==
    /\ pc = "classify"
    /\ halfsibs_raises(unmapped[1], ccsr)
    /\ Returns(Empty, "ValueError")

GetCousins ==
    /\ pc = "classify"
    /\ Returns(get_cousins(unmapped[1], ccsr), "get_cousins")

GetExtfam ==
    /\ pc = "classify"
    /\ Returns(get_extfam(unmapped[1], ccsr), "get_extfam")

NextClassifiers ==
    \/ GetChildren
    \/ GetSibs
    \/ GetParents
    \/ GetHalfsibs
    \/ GetHalfsibsRaise
    \/ GetCousins
    \/ GetExtfam

SpecClassifiers == InitClassifiers /\ [][NextClassifiers]_vars

----------------------------------------------------------------------------
(* formatter.check_icd called on its own, on array_like inputs of one and  *)
(* of two dimensions.                                                      *)

a0105 == <<"a", "0", "1", "0", "5">>
b11   == <<"b", "1", "1">>

\* the elements of the inputs: codes, two of them also in lower case, one
\* with letters after the first character, and the null entry
IcdElements == {A0105, a0105, A01AA, B11, b11, NaN}

\* np.array(query_icd) of a list, with its ndim, and of a frame that holds
\* the same list as its one column
ArrayLikes ==
    { [ndim |-> d, data |-> q] :
        d \in {1, 2}, q \in SeqsUpTo(IcdElements, MaxQuery) }

InitCheckIcd ==
    /\ query_icd \in ArrayLikes
    /\ ccsr = Empty
    /\ direct = Empty
    /\ unmapped = Empty
    /\ related_close = Empty
    /\ related_dist = Empty
    /\ i = 0
    /\ closefam_resolved = Empty
    /\ closefam_unresolved = Empty
    /\ closefam_failed = Empty
    /\ distfam_resolved = Empty
    /\ distfam_unresolved = Empty
    /\ distfam_failed = Empty
    /\ automatic = Empty
    /\ semiautomatic = Empty
    /\ failed = Empty
    /\ related = Empty
    /\ pc = "check_icd"

\* lines 353-354: an input that is not one-dimensional is rejected
CheckIcdRejects ==
    /\ pc = "check_icd"
    /\ query_icd.ndim # 1
    /\ pc' = "ValueError"
    /\ UNCHANGED <<related, ccsr, query_icd, direct, unmapped, related_close,
                   related_dist, i, closefam_resolved, closefam_unresolved,
                   closefam_failed, distfam_resolved, distfam_unresolved,
                   distfam_failed, automatic, semiautomatic, failed>>

\* lines 355-367: the frame of the codes is returned in unmapped, the input
\* being kept for comparison
CheckIcdReturns ==
    /\ pc = "check_icd"
    /\ query_icd.ndim = 1
    /\ unmapped' = check_icd(query_icd.data)
    /\ pc' = "checked"
    /\ UNCHANGED <<related, ccsr, query_icd, direct, related_close,
                   related_dist, i, closefam_resolved, closefam_unresolved,
                   closefam_failed, distfam_resolved, distfam_unresolved,
                   distfam_failed, automatic, semiautomatic, failed>>

NextCheckIcd ==
    \/ CheckIcdRejects
    \/ CheckIcdReturns

SpecCheckIcd == InitCheckIcd /\ [][NextCheckIcd]_vars

----------------------------------------------------------------------------
(* main.map_icd_to_ccsr on query lists that hold a code in upper and in    *)
(* lower case, with the steps of Next.                                     *)

VariantCodes == {A0105, a0105, A01AA, B11}

\* the tables of one category that hold queried codes
MatchingTables ==
    { TableOf(cs, [c \in cs |-> [ccsr_def |-> "X", cats |-> Cats(<<"X">>)]]) :
        cs \in SUBSET {A0105, B11, A01051} }

InitVariants ==
    /\ ccsr \in OrderTables \cup SharedTables \cup MatchingTables
    /\ query_icd \in SeqsUpTo(VariantCodes, MaxQuery)
    /\ direct = Empty
    /\ unmapped = Empty
    /\ related_close = Empty
    /\ related_dist = Empty
    /\ i = 0
    /\ closefam_resolved = Empty
    /\ closefam_unresolved = Empty
    /\ closefam_failed = Empty
    /\ distfam_resolved = Empty
    /\ distfam_unresolved = Empty
    /\ distfam_failed = Empty
    /\ automatic = Empty
    /\ semiautomatic = Empty
    /\ failed = Empty
    /\ related = Empty
    /\ pc = "check_icd"

SpecVariants == InitVariants /\ [][Next]_vars

----------------------------------------------------------------------------
(* The vocabulary of the properties: category sets, relation groups and    *)
(* the rows of the three output collections.                               *)

Terminated == pc \in {"done", "ValueError"}
Done == pc = "done"

\* the category set of an entry: its non-empty columns, as a set
CategorySet(cats) == {cats[k] : k \in 1..Len(cats)} \ {None}

\* the category set of the reference entry of a code
EntryCategories(code) ==
    UNION {CategorySet(ccsr[k].cats) : k \in {j \in 1..Len(ccsr) : ccsr[j].icd = code}}

\* no row of the table holds a label in two columns
DistinctLabels ==
    \A k \in 1..Len(ccsr) :
        Len(RowLabels(ccsr[k].cats)) = Cardinality(CategorySet(ccsr[k].cats))

\* the relation group of one kind for a queried code
Group(kind, icd) ==
    CASE kind = "Children" -> get_children(icd, ccsr)
      [] kind = "Siblings" -> get_sibs(icd, ccsr)
      [] kind = "Parents" -> get_parents(icd, ccsr)
      [] kind = "Half-Siblings" -> get_halfsibs(icd, ccsr)
      [] kind = "Cousins" -> get_cousins(icd, ccsr)
      [] kind = "Extended Family" -> get_extfam(icd, ccsr)

SeqRange(q) == {q[k] : k \in 1..Len(q)}

GroupCodes(group) == {group[k].icd : k \in 1..Len(group)}

\* the categories contained in the category set of every member
SharedByAll(group) ==
    {x \in Categories : \A k \in 1..Len(group) : x \in CategorySet(group[k].cats)}

\* the categories contained in the category set of some member
HeldBySome(group) ==
    {x \in Categories : \E k \in 1..Len(group) : x \in CategorySet(group[k].cats)}

\* the number of members whose category set contains the category
Holders(group, x) ==
    Cardinality({k \in 1..Len(group) : x \in CategorySet(group[k].cats)})

FullyAgrees(group) == Len(group) > 0 /\ SharedByAll(group) # {}

\* the pool of the close tier and the first non-empty distant group
ClosePool(icd) ==
    Group("Children", icd) \o Group("Siblings", icd) \o Group("Parents", icd)

FirstDistantKind(icd) ==
    IF Len(Group("Half-Siblings", icd)) > 0 THEN "Half-Siblings"
    ELSE IF Len(Group("Cousins", icd)) > 0 THEN "Cousins"
    ELSE IF Len(Group("Extended Family", icd)) > 0 THEN "Extended Family"
    ELSE "none"

FirstDistantGroup(icd) ==
    IF FirstDistantKind(icd) = "none" THEN <<>>
    ELSE Group(FirstDistantKind(icd), icd)

CloseKinds == {"Children", "Siblings", "Parents"}
DistantKinds == {"Half-Siblings", "Cousins", "Extended Family"}

\* the rows of a queried code in the output collections
AutomaticOf(icd) ==
    {k \in 1..Len(automatic) : automatic[k].queried_icd = icd}
SemiautomaticOf(icd) ==
    {k \in 1..Len(semiautomatic) : semiautomatic[k].queried_icd = icd}
FailedOf(icd) == {k \in 1..Len(failed) : failed[k] = icd}

\* the codes handed to get_predicted
Unmapped == SeqRange(unmapped)

IsAutomatic(icd) == AutomaticOf(icd) # {}
IsSemiautomatic(icd) == SemiautomaticOf(icd) # {}
IsFailed(icd) == FailedOf(icd) # {}

\* exactly one of: one automatic row, some semiautomatic rows, one failed row
InOneCollection(icd) ==
    \/ /\ Cardinality(AutomaticOf(icd)) = 1
       /\ SemiautomaticOf(icd) = {}
       /\ FailedOf(icd) = {}
    \/ /\ AutomaticOf(icd) = {}
       /\ SemiautomaticOf(icd) # {}
       /\ FailedOf(icd) = {}
    \/ /\ AutomaticOf(icd) = {}
       /\ SemiautomaticOf(icd) = {}
       /\ Cardinality(FailedOf(icd)) = 1

----------------------------------------------------------------------------
(* C1. Partition: whatever the table and the unmapped codes, the run of    *)
(* get_predicted ends with every unmapped code in exactly one of           *)
(* automatic (one row), semiautomatic (one row or more) and failed (one    *)
(* row); no code is in two collections, none is missing from all three.    *)
C1_Partition ==
    Terminated => (Done /\ \A icd \in Unmapped : InOneCollection(icd))

\* the runs that return do partition the unmapped codes
C1_PartitionOfReturnedRuns ==
    Done => \A icd \in Unmapped : InOneCollection(icd)

(* C2. Agreement soundness: every category reported by a row of automatic  *)
(* is in the category set of every reference entry of the row's            *)
(* related_codes.                                                          *)
C2_AgreementSoundness ==
    Done =>
        \A k \in 1..Len(automatic) :
            \A code \in SeqRange(automatic[k].related_codes) :
                CategorySet(automatic[k].cats) \subseteq EntryCategories(code)

\* soundness over the tables that hold no label twice in a row
C2_SoundnessDistinctLabels == DistinctLabels => C2_AgreementSoundness

(* C3. Agreement completeness: the categories a row of automatic reports   *)
(* are exactly those contained in the category set of every member of the  *)
(* deciding group; and a code is semiautomatic only if no group that was   *)
(* examined for it had a category shared by all its members.               *)
C3_AgreementCompleteness ==
    Done =>
        /\ \A k \in 1..Len(automatic) :
               CategorySet(automatic[k].cats) =
                   SharedByAll(Group(automatic[k].deciding_relationship,
                                     automatic[k].queried_icd))
        /\ \A k \in 1..Len(semiautomatic) :
               LET icd == semiautomatic[k].queried_icd
               IN  IF semiautomatic[k].relationship = "Close"
                   THEN \A kind \in CloseKinds : ~FullyAgrees(Group(kind, icd))
                   ELSE ~FullyAgrees(FirstDistantGroup(icd))

C3_CompletenessDistinctLabels == DistinctLabels => C3_AgreementCompleteness

\* the group behind the semiautomatic rows of a code
GroupUsed(icd, tier) ==
    IF tier = "Close" THEN ClosePool(icd) ELSE FirstDistantGroup(icd)

\* pct, in hundredths, is 100 * n / g rounded to two decimals
IsRounded(pct, n, g) ==
    /\ g > 0
    /\ 2 * (pct * g - 10000 * n) <= g
    /\ 2 * (10000 * n - pct * g) <= g

(* C4. Percentage correctness: a row (code, tier, category, pct) of        *)
(* semiautomatic has pct = 100 * n / g rounded to two decimals, g the size *)
(* of the group used (Close: Children, Siblings and Parents pooled;        *)
(* Distant: the first non-empty distant kind) and n the number of its      *)
(* members whose category set contains the category; and there is a row    *)
(* for every category some member of the group holds.                      *)
C4_PercentageCorrectness ==
    Done =>
        /\ \A k \in 1..Len(semiautomatic) :
               LET row == semiautomatic[k]
                   group == GroupUsed(row.queried_icd, row.relationship)
               IN  IsRounded(row.prct_fam_agree, Holders(group, row.ccsr_1),
                             Len(group))
        /\ \A icd \in Unmapped :
               IsSemiautomatic(icd) =>
                   LET tier == semiautomatic[CHOOSE k \in SemiautomaticOf(icd) : TRUE].relationship
                   IN  {semiautomatic[k].ccsr_1 : k \in SemiautomaticOf(icd)}
                           = HeldBySome(GroupUsed(icd, tier))

C4_PercentagesDistinctLabels == DistinctLabels => C4_PercentageCorrectness

\* the first close kind whose group is non-empty and shares a category
FirstAgreeingCloseKind(icd) ==
    IF FullyAgrees(Group("Children", icd)) THEN "Children"
    ELSE IF FullyAgrees(Group("Siblings", icd)) THEN "Siblings"
    ELSE IF FullyAgrees(Group("Parents", icd)) THEN "Parents"
    ELSE "none"

(* C5. Tier precedence: the deciding relationship of a close-tier row of   *)
(* automatic is the first of Children, Siblings, Parents whose group is    *)
(* non-empty and has a category shared by all its members; related_codes   *)
(* are that group's codes and the categories that group's shared ones, so  *)
(* that later kinds contribute nothing.                                    *)
C5_TierPrecedence ==
    Done =>
        \A k \in 1..Len(automatic) :
            LET row == automatic[k]
                group == Group(row.deciding_relationship, row.queried_icd)
            IN  row.deciding_relationship \in CloseKinds =>
                    /\ row.deciding_relationship
                           = FirstAgreeingCloseKind(row.queried_icd)
                    /\ row.related_codes
                           = [j \in 1..Len(group) |-> group[j].icd]
                    /\ CategorySet(row.cats) = SharedByAll(group)

C5_PrecedenceDistinctLabels == DistinctLabels => C5_TierPrecedence

\* the codes the loop over distant relatives was run for
EvaluatedDistant == SeqRange(related_dist)

\* the table cut down to the rows of a relation group
RowsOfGroup(group) ==
    SelectSeq(ccsr, LAMBDA r : r.icd \in GroupCodes(group))

\* the row of automatic without the default add_default gave it
Undefaulted(row) ==
    [queried_icd |-> row.queried_icd,
     deciding_relationship |-> row.deciding_relationship,
     cats |-> row.cats, related_codes |-> row.related_codes]

(* C6. Distant single-kind rule: for a code evaluated in the distant tier  *)
(* only the first non-empty group among Half-Siblings, Cousins, Extended   *)
(* Family is used.  Its row of automatic names that kind and that group's  *)
(* codes, its rows of semiautomatic hold exactly the categories of that    *)
(* group's members, and the rows are those computed from a table that      *)
(* holds that group alone: members of later kinds contribute nothing.      *)
C6_DistantSingleKind ==
    Done =>
        \A icd \in EvaluatedDistant :
            LET kind == FirstDistantKind(icd)
                group == FirstDistantGroup(icd)
                alone == DistantBody(icd, RowsOfGroup(group))
            IN  /\ \A k \in AutomaticOf(icd) :
                       /\ automatic[k].deciding_relationship = kind
                       /\ automatic[k].related_codes
                              = [j \in 1..Len(group) |-> group[j].icd]
                       /\ CategorySet(automatic[k].cats)
                              \subseteq HeldBySome(group)
                /\ \A k \in SemiautomaticOf(icd) :
                       /\ semiautomatic[k].relationship = "Distant"
                       /\ semiautomatic[k].ccsr_1 \in HeldBySome(group)
                /\ {Undefaulted(automatic[k]) : k \in AutomaticOf(icd)}
                       = SeqRange(alone.resolved)
                /\ {semiautomatic[k] : k \in SemiautomaticOf(icd)}
                       = SeqRange(alone.unresolved)
                /\ IsFailed(icd) <=> Len(alone.failed) > 0

\* a code whose half-siblings disagree and which has a further cousin
\* has ended semiautomatic
C6_Witness ==
    /\ Done
    /\ \E icd \in EvaluatedDistant :
           /\ FirstDistantKind(icd) = "Half-Siblings"
           /\ ~FullyAgrees(Group("Half-Siblings", icd))
           /\ Len(Group("Cousins", icd)) > Len(Group("Half-Siblings", icd))
           /\ IsSemiautomatic(icd)

(* C7. A code is evaluated in the distant tier exactly if it has no        *)
(* Children, no Siblings and no Parents.  A code with close relatives of   *)
(* which no kind agrees on a category ends semiautomatic with tier Close:  *)
(* it has no row of automatic, no Distant row and is not failed.           *)
C7_DistantOnlyWithoutCloseFamily ==
    /\ pc \in {"distant", "merge", "done"} =>
           \A icd \in Unmapped :
               icd \in EvaluatedDistant <=> Len(ClosePool(icd)) = 0
    /\ Done =>
           \A icd \in Unmapped :
               (/\ Len(ClosePool(icd)) > 0
                /\ \A kind \in CloseKinds : ~FullyAgrees(Group(kind, icd)))
               => /\ IsSemiautomatic(icd)
                  /\ \A k \in SemiautomaticOf(icd) :
                         semiautomatic[k].relationship = "Close"
                  /\ ~IsAutomatic(icd)
                  /\ ~IsFailed(icd)

C7_DistinctLabels == DistinctLabels => C7_DistantOnlyWithoutCloseFamily

\* whatever the labels: a code with close relatives is never handed to the
\* distant tier, and ends with a Close row or a close deciding relationship
C7_NoFallThrough ==
    Done =>
        \A icd \in Unmapped :
            Len(ClosePool(icd)) > 0 =>
                /\ icd \notin EvaluatedDistant
                /\ ~IsFailed(icd)
                /\ \A k \in SemiautomaticOf(icd) :
                       semiautomatic[k].relationship = "Close"
                /\ \A k \in AutomaticOf(icd) :
                       automatic[k].deciding_relationship \in CloseKinds

HasNoRelative(icd) ==
    \A kind \in CloseKinds \cup DistantKinds : Len(Group(kind, icd)) = 0

(* C8. A code is in failed exactly if none of the six kinds has a member   *)
(* for it; and a code without close relatives whose first non-empty        *)
(* distant group shares no category ends semiautomatic with tier Distant.  *)
C8_FailedOnlyWithoutRelatives ==
    Done =>
        \A icd \in Unmapped :
            /\ IsFailed(icd) <=> HasNoRelative(icd)
            /\ (/\ Len(ClosePool(icd)) = 0
                /\ Len(FirstDistantGroup(icd)) > 0
                /\ ~FullyAgrees(FirstDistantGroup(icd)))
               => /\ IsSemiautomatic(icd)
                  /\ \A k \in SemiautomaticOf(icd) :
                         semiautomatic[k].relationship = "Distant"

C8_DistinctLabels == DistinctLabels => C8_FailedOnlyWithoutRelatives

\* whatever the labels: failed holds the codes without relatives
C8_FailedIffNoRelative ==
    Done => \A icd \in Unmapped : IsFailed(icd) <=> HasNoRelative(icd)

(* C9. No error outcome: for every table and every query code of letters   *)
(* and digits, of length 3 or more, the resolution completes; no step of   *)
(* the classifiers or of the resolver ends in an exception.                *)
C9_NoErrorOutcome == pc # "ValueError"

\* the queried codes of five characters or more end in two digits
EndInDigits ==
    \A k \in 1..Len(query_icd) :
        Len(query_icd[k]) >= 5 => IsDigit(Suffix(query_icd[k], 2))

C9_NoErrorForDigitEndings == EndInDigits => C9_NoErrorOutcome

----------------------------------------------------------------------------
\* the run of get_predicted and add_default on the list of one unmapped
\* code: whether it raises, and the three collections it returns
Alone(icd) ==
    LET close == CloseBody(icd, ccsr)
        tried == Len(close.failed) > 0
        distant == IF tried /\ ~halfsibs_raises(icd, ccsr)
                   THEN DistantBody(icd, ccsr)
                   ELSE [resolved |-> <<>>, unresolved |-> <<>>,
                         failed |-> <<>>]
    IN  [raises |-> tried /\ halfsibs_raises(icd, ccsr),
         automatic |-> add_default(merge_automatic(close.resolved,
                                                   distant.resolved), ccsr),
         semiautomatic |-> merge_semiautomatic(close.unresolved,
                                               distant.unresolved),
         failed |-> merge_failed(distant.failed)]

\* the rows of the batch's collections for a code are those of the code
\* resolved alone
SameRowsAsAlone(icd) ==
    /\ SelectSeq(automatic, LAMBDA r : r.queried_icd = icd)
           = Alone(icd).automatic
    /\ SelectSeq(semiautomatic, LAMBDA r : r.queried_icd = icd)
           = Alone(icd).semiautomatic
    /\ SelectSeq(failed, LAMBDA c : c = icd) = Alone(icd).failed

(* C11. Per-code independence: a code that resolves when it is queried     *)
(* alone gets the same rows (kind, deciding relationship, categories,      *)
(* related codes, default, candidates and percentages) in every batch      *)
(* that contains it.                                                       *)
C11_PerCodeIndependence ==
    Terminated =>
        \A icd \in Unmapped :
            ~Alone(icd).raises => (Done /\ SameRowsAsAlone(icd))

\* in the batches that return, every code has the rows it has alone
C11_IndependenceOfReturnedRuns ==
    Done => \A icd \in Unmapped : SameRowsAsAlone(icd)

----------------------------------------------------------------------------
\* the groups get_predicted counts categories over for a code: the group
\* of each kind (agreement) and the pool of the close tier (percentages)
CountedGroups(icd) ==
    {Group(kind, icd) : kind \in CloseKinds \cup DistantKinds}
        \cup {ClosePool(icd)}

\* the counts the code takes over a group, as a set of [label, n]
CodeCounts(group) == SeqRange(value_counts(Stack(group)))

\* the counts of a group read as sets: for every category some member
\* holds, the number of members holding it
SetCounts(group) ==
    {[label |-> x, n |-> Holders(group, x)] : x \in HeldBySome(group)}

Reverse(q) == [k \in 1..Len(q) |-> q[Len(q) + 1 - k]]

\* the group with the labels of every member in the opposite slot order
SlotsReversed(group) ==
    [k \in 1..Len(group) |->
        [group[k] EXCEPT !.cats = Padded(Reverse(RowLabels(group[k].cats)))]]

Searched == pc \in {"close", "distant", "merge", "done"}

(* C12. Categories are counted as a set: over every group the resolver     *)
(* counts, the count of a category is the number of members whose          *)
(* category set contains it, a member adding at most 1 whichever slots     *)
(* hold the label and however often; and the counts are the same with      *)
(* the slots of every member in another order.                             *)
C12_CategoriesCountedAsSet ==
    Searched =>
        \A icd \in Unmapped :
            \A group \in CountedGroups(icd) :
                /\ CodeCounts(group) = SetCounts(group)
                /\ CodeCounts(SlotsReversed(group)) = CodeCounts(group)

\* the counts do not depend on the order of the slots
C12_SlotOrderImmaterial ==
    Searched =>
        \A icd \in Unmapped :
            \A group \in CountedGroups(icd) :
                CodeCounts(SlotsReversed(group)) = CodeCounts(group)

\* over the tables that hold no label twice in a row the counts are those
\* of the category sets
C12_DistinctLabels == DistinctLabels => C12_CategoriesCountedAsSet

----------------------------------------------------------------------------
AllKinds == CloseKinds \cup DistantKinds

(* C13. Self-exclusion: for every code that reaches the relationship       *)
(* search, the group of none of the six kinds holds the reference entry    *)
(* of the code itself; so neither the related_codes of its row of          *)
(* automatic nor the group behind its rows of semiautomatic include it.    *)
C13_SelfExclusion ==
    /\ Searched =>
           \A icd \in Unmapped :
               /\ \A kind \in AllKinds : icd \notin GroupCodes(Group(kind, icd))
               /\ icd \notin GroupCodes(ClosePool(icd))
    /\ Done =>
           \A k \in 1..Len(automatic) :
               automatic[k].queried_icd
                   \notin SeqRange(automatic[k].related_codes)

\* a code with siblings and further cousins was resolved from its
\* relatives
C13_Witness ==
    /\ Done
    /\ \E icd \in Unmapped :
           /\ Len(Group("Siblings", icd)) > 0
           /\ Len(Group("Cousins", icd)) > Len(Group("Siblings", icd))
           /\ \E k \in AutomaticOf(icd) :
                  Len(automatic[k].related_codes) > 0

----------------------------------------------------------------------------
\* the table has a row for the code
InReference(code) == \E j \in 1..Len(ccsr) : ccsr[j].icd = code

Matched == pc \notin {"check_icd", "get_direct_unmapped"}

(* C14. Direct matching partitions the queried codes by presence in the    *)
(* table: a queried code is in direct, with the categories and default of  *)
(* its reference row, exactly if the table has a row with that very code,  *)
(* and it is in unmapped, handed to the relationship search, exactly if    *)
(* the table has none; nothing else is in direct or unmapped.              *)
C14_DirectMatching ==
    Matched =>
        /\ \A q \in SeqRange(query_icd) :
               /\ (\E k \in 1..Len(direct) : direct[k].queried_icd = q)
                      <=> InReference(q)
               /\ q \in Unmapped <=> ~InReference(q)
        /\ \A k \in 1..Len(direct) :
               /\ direct[k].queried_icd \in SeqRange(query_icd)
               /\ \E j \in 1..Len(ccsr) :
                      /\ ccsr[j].icd = direct[k].queried_icd
                      /\ ccsr[j].cats = direct[k].cats
                      /\ ccsr[j].ccsr_def = direct[k].ccsr_def
        /\ Unmapped \subseteq SeqRange(query_icd)
        /\ pc \in {"close", "distant", "merge"} =>
               SeqRange(related_close) = Unmapped

\* of two queried codes one was matched directly and one was not
C14_Witness ==
    /\ Done
    /\ Len(direct) > 0
    /\ Len(unmapped) > 0
    /\ Len(ccsr) > Len(direct)

----------------------------------------------------------------------------
\* the rows of the table as test_add_default_valid hands them to
\* add_default: the categories of every row, no related codes
ReferenceRows ==
    [j \in 1..Len(ccsr) |->
        [queried_icd |-> ccsr[j].icd, deciding_relationship |-> None,
         cats |-> ccsr[j].cats, related_codes |-> <<>>]]

----------------------------------------------------------------------------
(* The vocabulary of the classifier rules: the code a classifier was       *)
(* called on, the codes of the table and the codes it returned.            *)

Queried == unmapped[1]

ReferenceCodes == {ccsr[j].icd : j \in 1..Len(ccsr)}

ReturnedCodes == {related[k].icd : k \in 1..Len(related)}

\* every returned row is a row of the table, taken once, and carries the
\* queried code and the name of the relationship
WellFormedResult(relation) ==
    /\ Len(related) = Cardinality(ReturnedCodes)
    /\ \A k \in 1..Len(related) :
           /\ related[k].queried_icd = Queried
           /\ related[k].relationship = relation
           /\ \E j \in 1..Len(ccsr) :
                  /\ ccsr[j].icd = related[k].icd
                  /\ ccsr[j].cats = related[k].cats

\* code e and code c have the same first n characters, both having them
SameFirst(e, c, n) ==
    /\ Len(e) >= n
    /\ Len(c) >= n
    /\ \A j \in 1..n : e[j] = c[j]

\* the entries that start with c and are g characters longer
Descendants(c, g) ==
    {e \in ReferenceCodes : Len(e) = Len(c) + g /\ SameFirst(e, c, Len(c))}

----------------------------------------------------------------------------
\* the entries of at least 3 characters that c starts with and that are
\* shorter than c
Ancestors(c) ==
    {e \in ReferenceCodes :
        Len(e) >= 3 /\ Len(e) < Len(c) /\ SameFirst(e, c, Len(e))}

----------------------------------------------------------------------------
(* C18. Siblings rule: get_sibs(c) returns exactly the entries of the      *)
(* length of c that agree with c on every character but the last; an      *)
(* entry of another length that shares the first len(c)-1 characters is    *)
(* never returned, and the entries of the same length are all returned.    *)
C18_SiblingsRule ==
    pc = "get_sibs" =>
        /\ WellFormedResult("Siblings")
        /\ ReturnedCodes =
               {e \in ReferenceCodes :
                   /\ Len(e) = Len(Queried)
                   /\ \A j \in 1..(Len(Queried) - 1) : e[j] = Queried[j]}

\* the table holds two entries of the length of A0105 that start with
\* A010, and a shorter and a longer entry that start with A010: the two
\* of the same length are returned
C18_Witness ==
    /\ pc = "get_sibs"
    /\ Queried = A0105
    /\ ReferenceCodes = {A010, A0100, A0101, A01051}
    /\ ReturnedCodes = {A0100, A0101}

----------------------------------------------------------------------------
\* the value of the last two characters of a code that ends in two digits
LastTwo(e) == DigitsValue(Suffix(e, 2))

\* the entries of the length of c that share all but its last two
\* characters, end in two digits and lie less than 10 from c, which ends
\* in two digits itself
NearEntries(c) ==
    {e \in ReferenceCodes :
        /\ Len(c) >= 5
        /\ Len(e) = Len(c)
        /\ \A j \in 1..(Len(c) - 2) : e[j] = c[j]
        /\ IsDigit(Suffix(e, 2))
        /\ IsDigit(Suffix(c, 2))
        /\ LastTwo(e) - LastTwo(c) < 10
        /\ LastTwo(c) - LastTwo(e) < 10}

HalfsibsEnded == pc \in {"get_halfsibs", "ValueError"}

(* C19. Half-Siblings rule: get_halfsibs(c) returns nothing when c has     *)
(* fewer than 5 characters; otherwise it returns exactly the entries of    *)
(* the length of c whose first len(c)-2 characters are those of c, whose   *)
(* last two characters are digits and whose two-digit value is less than   *)
(* 10 from that of c: a difference of 9 is in, a difference of 10 is out.  *)
C19_HalfSiblingsRule ==
    HalfsibsEnded =>
        /\ pc = "get_halfsibs"
        /\ WellFormedResult("Half-Siblings")
        /\ ReturnedCodes = NearEntries(Queried)
        /\ Len(Queried) < 5 => related = Empty

\* whenever get_halfsibs returns, it returns by the rule
C19_RuleWhereReturned ==
    pc = "get_halfsibs" =>
        /\ WellFormedResult("Half-Siblings")
        /\ ReturnedCodes = NearEntries(Queried)
        /\ Len(Queried) < 5 => related = Empty

\* of the entries at distances 5, 9 and 10 from A0105 the first two are
\* returned
C19_Witness ==
    /\ pc = "get_halfsibs"
    /\ Queried = A0105
    /\ {A0100, A0114, A0115} \subseteq ReferenceCodes
    /\ ReturnedCodes \ {A0105} = {A0100, A0114}

\* get_halfsibs raised on a code that ends in letters
C19_Raised ==
    /\ pc = "ValueError"
    /\ Queried = Capitalize(A01AA)
    /\ ReferenceCodes = {A0100}

----------------------------------------------------------------------------
\* the entries whose first n characters are the first n characters of c
SharingFirst(c, n) == {e \in ReferenceCodes : SameFirst(e, c, n)}

C20_WitnessExtendedFamily ==
    /\ pc = "get_extfam"
    /\ Queried = A0105
    /\ ReferenceCodes = {A0, A00, A01, A01051}
    /\ ReturnedCodes = {A0, A00, A01, A01051}

----------------------------------------------------------------------------
\* the entries of the length of c that agree with c on all but the last
\* character
SiblingEntries(c) ==
    {e \in ReferenceCodes :
        Len(e) = Len(c) /\ \A j \in 1..(Len(c) - 1) : e[j] = c[j]}

C21_ResolvedByExtendedFamily ==
    /\ Done
    /\ ReferenceCodes = {A00}
    /\ A0105 \in Unmapped
    /\ IsAutomatic(A0105)

----------------------------------------------------------------------------
(* C22. Ordering of semiautomatic: the rows of one queried code are in     *)
(* descending order of the percentage and, where the percentages are       *)
(* equal, in ascending order of the category; the rows of different codes  *)
(* are in ascending order of the queried code.                             *)
C22_SemiautomaticOrdering ==
    Done =>
        \A j, k \in 1..Len(semiautomatic) :
            j < k =>
                LET a == semiautomatic[j]
                    b == semiautomatic[k]
                IN  IF a.queried_icd # b.queried_icd
                    THEN StrLess(a.queried_icd, b.queried_icd)
                    ELSE IF a.prct_fam_agree # b.prct_fam_agree
                         THEN a.prct_fam_agree > b.prct_fam_agree
                         ELSE Ord(a.ccsr_1) < Ord(b.ccsr_1)

\* the children of A0105 hold Z and Y and its siblings Y and X: the
\* candidates are Y at 50 %, then X and Z at 25 %, where the counting
\* had Z before X
C22_Witness ==
    /\ Done
    /\ Len(semiautomatic) = 3
    /\ semiautomatic[1].queried_icd = A0105
    /\ <<semiautomatic[1].ccsr_1, semiautomatic[1].prct_fam_agree>>
           = <<"Y", 5000>>
    /\ <<semiautomatic[2].ccsr_1, semiautomatic[2].prct_fam_agree>>
           = <<"X", 2500>>
    /\ <<semiautomatic[3].ccsr_1, semiautomatic[3].prct_fam_agree>>
           = <<"Z", 2500>>
    /\ LET counted == code_perc(A0105, get_closely_related(A0105, ccsr),
                                "Close")
       IN  Len(counted) = 3 /\ counted[2].ccsr_1 = "Z"

----------------------------------------------------------------------------
\* the default map has a default for the sorted categories of the row
InDefaultMap(row) ==
    \E j \in 1..Len(ccsr) :
        SortedLabels(ccsr[j].cats) = SortedLabels(row.cats)

(* C23. Default step 2: a row of automatic whose sorted categories have no *)
(* default in the default map and whose category set has one element has   *)
(* that category as its default.                                           *)
C23_SoleCategoryDefault ==
    Done =>
        \A k \in 1..Len(automatic) :
            (/\ ~InDefaultMap(automatic[k])
             /\ Cardinality(CategorySet(automatic[k].cats)) = 1)
                => CategorySet(automatic[k].cats) = {automatic[k].ccsr_def}

\* the children of A0105 hold W,X with default W and X,Y with default Y;
\* no entry holds X alone, and the default of A0105 is X
C23_Witness ==
    /\ Done
    /\ \E k \in 1..Len(automatic) :
           /\ automatic[k].queried_icd = A0105
           /\ ~InDefaultMap(automatic[k])
           /\ CategorySet(automatic[k].cats) = {"X"}
           /\ automatic[k].ccsr_def = "X"
           /\ \A j \in 1..Len(ccsr) : ccsr[j].ccsr_def # "X"

----------------------------------------------------------------------------
\* the entries of the table that are related codes of the row and have the
\* default c
RelatedWithDefault(row, c) ==
    {j \in 1..Len(ccsr) :
        /\ ccsr[j].icd \in SeqRange(row.related_codes)
        /\ ccsr[j].ccsr_def = c}

C24_WitnessUnset ==
    /\ Done
    /\ \E k \in 1..Len(automatic) :
           /\ automatic[k].queried_icd = A0105
           /\ ~InDefaultMap(automatic[k])
           /\ CategorySet(automatic[k].cats) = {"X", "Y"}
           /\ Len(automatic[k].related_codes) = 2
           /\ automatic[k].ccsr_def = None

----------------------------------------------------------------------------
\* a code with its first character in upper case, the others as they are
UpperFirst(code) ==
    [k \in 1..Len(code) |-> IF k = 1 THEN Upper(code[k]) ELSE code[k]]

\* the normalised codes of the input: every entry that is not null, with
\* its first character in upper case
NormalisedInput ==
    {UpperFirst(e) : e \in SeqRange(query_icd.data) \ {NaN}}

(* C25. Query normalisation: for a one-dimensional input check_icd returns *)
(* the codes with the first character in upper case, without the null      *)
(* entries, in ascending order and none of them twice, also when two       *)
(* inputs differ in letter case only; there are as many rows as distinct    *)
(* normalised codes.  An input of two dimensions is rejected with          *)
(* ValueError.                                                             *)
C25_QueryNormalisation ==
    /\ pc = "checked" =>
           /\ SeqRange(unmapped) = NormalisedInput
           /\ \A j, k \in 1..Len(unmapped) :
                  j < k => StrLess(unmapped[j], unmapped[k])
           /\ Len(unmapped) = Cardinality(NormalisedInput)
    /\ pc # "check_icd" => (pc = "ValueError" <=> query_icd.ndim = 2)

\* the input has no letter after the first character of a code and no two
\* entries that differ in letter case only
PlainInput ==
    LET codes == SeqRange(query_icd.data) \ {NaN}
    IN  /\ \A e \in codes : \A k \in 2..Len(e) : Lower(e[k]) = e[k]
        /\ \A e, f \in codes : UpperFirst(e) = UpperFirst(f) => e = f

\* on such inputs check_icd normalises as described
C25_NormalisationOfPlainInput == PlainInput => C25_QueryNormalisation

\* 'a0105' and 'A0105' were given and 'A0105' is returned twice
C25_ReturnedTwice ==
    /\ pc = "checked"
    /\ SeqRange(query_icd.data) = {a0105, A0105}
    /\ unmapped = <<A0105, A0105>>

\* 'A01AA' was given and 'A01aa' is returned
C25_LaterLettersLowered ==
    /\ pc = "checked"
    /\ query_icd.data = <<A01AA>>
    /\ unmapped = <<Capitalize(A01AA)>>
    /\ unmapped # <<A01AA>>

\* a null entry and 'b11' were given: 'B11' alone is returned
C25_Witness ==
    /\ pc = "checked"
    /\ query_icd.data = <<NaN, b11>>
    /\ unmapped = <<B11>>

----------------------------------------------------------------------------
\* the default map of a table: the default kept for the sorted categories
\* of every row
DefaultMap(table) ==
    {<<SortedLabels(table[j].cats),
       default_map_get(table, SortedLabels(table[j].cats))>> :
        j \in 1..Len(table)}

----------------------------------------------------------------------------
(* C27. In every row of semiautomatic, of tier Close or Distant, the       *)
(* category is held by at least one and by fewer than all members of the   *)
(* group used: its count n satisfies 1 <= n < g and its percentage lies    *)
(* strictly between 0 and 100; no category held by every member of the     *)
(* close pool is in a row of semiautomatic.                                *)
C27_PartialAgreement ==
    Done =>
        \A k \in 1..Len(semiautomatic) :
            LET row == semiautomatic[k]
                group == GroupUsed(row.queried_icd, row.relationship)
                n == Holders(group, row.ccsr_1)
            IN  /\ 1 <= n
                /\ n < Len(group)
                /\ 0 < row.prct_fam_agree
                /\ row.prct_fam_agree < 10000
                /\ row.relationship = "Close" =>
                       row.ccsr_1 \notin SharedByAll(ClosePool(row.queried_icd))

\* where no row of the table repeats a label
C27_DistinctLabels == DistinctLabels => C27_PartialAgreement

\* the only relative of A0105 holds X in two columns, and X is a candidate
\* at 200 %
C27_AllMembersHold ==
    /\ Done
    /\ \E k \in 1..Len(semiautomatic) :
           /\ semiautomatic[k].queried_icd = A0105
           /\ Len(GroupUsed(A0105, semiautomatic[k].relationship)) = 1
           /\ semiautomatic[k].prct_fam_agree = 20000

\* two children of A0105 hold X and Y: both are candidates at 50 %
C27_Witness ==
    /\ Done
    /\ DistinctLabels
    /\ \E k \in 1..Len(semiautomatic) :
           /\ semiautomatic[k].relationship = "Close"
           /\ semiautomatic[k].prct_fam_agree = 5000
           /\ Len(ClosePool(semiautomatic[k].queried_icd)) = 2

----------------------------------------------------------------------------
\* the default of every entry is one of the entry's categories
DefaultsAmongCategories ==
    \A j \in 1..Len(ccsr) : ccsr[j].ccsr_def \in CategorySet(ccsr[j].cats)

(* C28. Whenever a row of automatic has a default, by whichever of the     *)
(* three steps, the default is one of the row's categories ccsr_1..ccsr_6. *)
C28_DefaultAmongOwnCategories ==
    Done =>
        \A k \in 1..Len(automatic) :
            automatic[k].ccsr_def # None
                => automatic[k].ccsr_def \in CategorySet(automatic[k].cats)

(* C28, amended. A default given by the single category or by the related  *)
(* codes is one of the row's categories; a default taken from the default  *)
(* map is the ccsr_def of an entry with the row's categories, and so one   *)
(* of the row's categories wherever every entry's default is one of the    *)
(* entry's categories.                                                     *)
C28_DefaultAmongCategoriesOrOfEntry ==
    Done =>
        /\ \A k \in 1..Len(automatic) :
               LET row == automatic[k]
               IN  row.ccsr_def # None =>
                       IF InDefaultMap(row)
                       THEN \E j \in 1..Len(ccsr) :
                                /\ CategorySet(ccsr[j].cats)
                                       = CategorySet(row.cats)
                                /\ ccsr[j].ccsr_def = row.ccsr_def
                       ELSE row.ccsr_def \in CategorySet(row.cats)
        /\ DefaultsAmongCategories => C28_DefaultAmongOwnCategories

\* a code was resolved from two relatives to categories that an entry
\* holds with a default that is none of them
C28_Witness ==
    /\ Done
    /\ \E k \in 1..Len(automatic) :
           /\ Len(automatic[k].related_codes) = 2
           /\ InDefaultMap(automatic[k])
           /\ automatic[k].ccsr_def # None
           /\ automatic[k].ccsr_def \notin CategorySet(automatic[k].cats)

----------------------------------------------------------------------------
NoRows == [resolved |-> <<>>, unresolved |-> <<>>, failed |-> <<>>]

\* the three frames the first loop of get_predicted builds over a list
\* of codes
RECURSIVE CloseOver(_, _)
CloseOver(codes, table) ==
    IF Len(codes) = 0 THEN NoRows
    ELSE LET first == CloseBody(Head(codes), table)
             rest == CloseOver(Tail(codes), table)
         IN  [resolved |-> first.resolved \o rest.resolved,
              unresolved |-> first.unresolved \o rest.unresolved,
              failed |-> first.failed \o rest.failed]

\* the three frames of the second loop
RECURSIVE DistantOver(_, _)
DistantOver(codes, table) ==
    IF Len(codes) = 0 THEN NoRows
    ELSE LET first == DistantBody(Head(codes), table)
             rest == DistantOver(Tail(codes), table)
         IN  [resolved |-> first.resolved \o rest.resolved,
              unresolved |-> first.unresolved \o rest.unresolved,
              failed |-> first.failed \o rest.failed]

\* what map_icd_to_ccsr does from the frame of check_icd on: an error, or
\* the four collections
OutcomeOfChecked(checked, table) ==
    LET unm == get_unmapped(checked, table)
        close == CloseOver(SortSeq(unm, StrLess), table)
        dist == SortSeq(close.failed, StrLess)
        raises == \E k \in 1..Len(dist) : halfsibs_raises(dist[k], table)
        distant == IF raises THEN NoRows
                   ELSE DistantOver(dist, table)
        merged == merge_automatic(close.resolved, distant.resolved)
        error == \/ raises
                 \/ Len(merged) > 0 /\ add_default_raises(merged, table)
    IN  IF Len(unm) = 0
        THEN [error |-> FALSE, direct |-> get_direct(checked, table),
              automatic |-> <<>>, semiautomatic |-> <<>>, failed |-> <<>>]
        ELSE IF error
        THEN [error |-> TRUE, direct |-> <<>>, automatic |-> <<>>,
              semiautomatic |-> <<>>, failed |-> <<>>]
        ELSE [error |-> FALSE, direct |-> get_direct(checked, table),
              automatic |-> add_default(merged, table),
              semiautomatic |-> merge_semiautomatic(close.unresolved,
                                                    distant.unresolved),
              failed |-> merge_failed(distant.failed)]

Outcome(query, table) == OutcomeOfChecked(check_icd(query), table)

\* the outcome the run has reached
Reached ==
    IF Done
    THEN [error |-> FALSE, direct |-> direct, automatic |-> automatic,
          semiautomatic |-> semiautomatic, failed |-> failed]
    ELSE [error |-> TRUE, direct |-> <<>>, automatic |-> <<>>,
          semiautomatic |-> <<>>, failed |-> <<>>]

\* the lists of the queried codes in another order or with codes repeated
Rearranged ==
    {q \in SeqsUpTo(SeqRange(query_icd), MaxQuery + 1) :
        SeqRange(q) = SeqRange(query_icd)}

\* a collection is in ascending order of the queried code, one row a code
OneRowPerCode(codes) ==
    \A j, k \in 1..Len(codes) : j < k => StrLess(codes[j], codes[k])

Ascending(codes) ==
    \A j, k \in 1..Len(codes) : j < k => ~StrLess(codes[k], codes[j])

(* C29. The outcome does not depend on the order or the multiplicity of    *)
(* the query list: every permutation of the list, and every list that      *)
(* repeats codes of it, gives the same direct, automatic, semiautomatic    *)
(* and failed; each is in ascending order of the queried code, with one    *)
(* row a code in automatic and in failed.                                  *)
C29_OrderAndMultiplicity ==
    /\ pc = "check_icd" =>
           \A q \in Rearranged : Outcome(q, ccsr) = Outcome(query_icd, ccsr)
    /\ Terminated => Reached = OutcomeOfChecked(query_icd, ccsr)
    /\ Done =>
           /\ OneRowPerCode([k \in 1..Len(direct) |-> direct[k].queried_icd])
           /\ OneRowPerCode([k \in 1..Len(automatic) |->
                                 automatic[k].queried_icd])
           /\ OneRowPerCode(failed)
           /\ Ascending([k \in 1..Len(semiautomatic) |->
                             semiautomatic[k].queried_icd])

\* the list holds no code in two spellings that differ in letter case;
\* after check_icd such a code stands in the list twice
OneSpelling ==
    IF pc = "check_icd"
    THEN \A e, f \in SeqRange(query_icd) :
             Capitalize(e) = Capitalize(f) => e = f
    ELSE Len(query_icd) = Cardinality(SeqRange(query_icd))

\* for such lists the outcome is that of the set of the codes
C29_OneSpelling == OneSpelling => C29_OrderAndMultiplicity

\* 'a0105' and 'A0105' were queried and automatic has two rows for A0105
C29_TwoRows ==
    /\ Done
    /\ Len(automatic) = 2
    /\ automatic[1].queried_icd = A0105
    /\ automatic[2].queried_icd = A0105

\* B11 and A0105 were queried, in this order or the other, once or more:
\* A0105 is in automatic and B11 in failed
C29_Witness ==
    /\ Done
    /\ query_icd = <<A0105, B11>>
    /\ Len(automatic) = 1
    /\ failed = <<B11>>

----------------------------------------------------------------------------
\* the codes of the distant group a resolution of the code used, if it
\* used one of the kind: the related codes of its row of automatic, or the
\* first non-empty distant group behind its rows of semiautomatic
UsedDistant(icd, kind) ==
    UNION ({SeqRange(automatic[k].related_codes) :
               k \in {j \in AutomaticOf(icd) :
                          automatic[j].deciding_relationship = kind}}
           \cup {GroupCodes(FirstDistantGroup(icd)) :
                     k \in {j \in SemiautomaticOf(icd) :
                                /\ semiautomatic[j].relationship = "Distant"
                                /\ FirstDistantKind(icd) = kind}})

(* C30. The distant tier is reached only by codes without siblings, so     *)
(* every half-sibling used in a resolution differs from the queried code   *)
(* in its second-to-last character; and the extended family is the group   *)
(* used only when no entry shares the first 3 characters of the code.      *)
C30_DistantGroupsUsed ==
    Done =>
        \A icd \in Unmapped :
            /\ \A e \in UsedDistant(icd, "Half-Siblings") :
                   /\ Len(e) = Len(icd)
                   /\ e[Len(e) - 1] # icd[Len(icd) - 1]
            /\ UsedDistant(icd, "Extended Family") # {}
                   => SharingFirst(icd, 3) = {}
            /\ (\E kind \in DistantKinds : UsedDistant(icd, kind) # {})
                   => SiblingEntries(icd) = {}

\* A0105 was resolved from the half-siblings A0110 and A0111
C30_Witness ==
    /\ Done
    /\ UsedDistant(A0105, "Half-Siblings") = {A0110, A0111}

\* A0105 was resolved from its extended family A00
C30_WitnessExtendedFamily ==
    /\ Done
    /\ UsedDistant(A0105, "Extended Family") = {A00}

====
